---- MODULE Spec2Model ----
(***************************************************************************)
(* Model of rustduino's ATMEGA2560P port/pin HAL (atmega2560p/hal/port.rs) *)
(* and of its random number generator (math/random.rs).                    *)
(*                                                                         *)
(* Four specifications share the module:                                   *)
(*   SpecPort   - one Port (PINx, DDRx, PORTx) and the Pin handles on it   *)
(*   SpecRng    - one RandomNumberGenerator and its two accessors          *)
(*   SpecXor    - xor applied to every pair of bytes                       *)
(*   SpecRotate - rotate applied to every byte for every n in 1..7         *)
(***************************************************************************)
EXTENDS Integers, Sequences, FiniteSets

\* ------------------------------------------------------------------ bounds
\* Largest index handed to Port::pin / Pin::new (indices are usize, so the
\* invalid ones are the indices from 8 upwards).
MaxIndex == 8
\* Largest number of Pin handles alive on the port at once.
MaxPins == 2
\* The sensor bytes are drawn from 0..MaxAxis and from 255-MaxAxis..255.
MaxAxis == 2

\* ------------------------------------------------------- u8 and its operators
ByteMax == 255
Byte == 0..ByteMax

\* bit i of x
get_bit(x, i) == (x \div (2 ^ i)) % 2

\* x << n on u8: the bits shifted out of the top are discarded
Shl8(x, n) == (x * (2 ^ n)) % (ByteMax + 1)

\* x >> n on u8
Shr8(x, n) == x \div (2 ^ n)

\* a | b on u8
RECURSIVE OrBits(_, _, _)
OrBits(a, b, i) ==
    IF i > 7 THEN 0
    ELSE (IF get_bit(a, i) = 1 \/ get_bit(b, i) = 1 THEN 2 ^ i ELSE 0)
         + OrBits(a, b, i + 1)
Or8(a, b) == OrBits(a, b, 0)

\* a & b on u8
RECURSIVE AndBits(_, _, _)
AndBits(a, b, i) ==
    IF i > 7 THEN 0
    ELSE (IF get_bit(a, i) = 1 /\ get_bit(b, i) = 1 THEN 2 ^ i ELSE 0)
         + AndBits(a, b, i + 1)
And8(a, b) == AndBits(a, b, 0)

\* !a on u8
Not8(a) == ByteMax - a

\* a - b on u8, wrapping (the release build's arithmetic)
Sub8(a, b) == (a - b + ByteMax + 1) % (ByteMax + 1)

\* ------------------------------------------------------------------- state
VARIABLES
    ddr,      \* Port.ddr  : DDRx
    port,     \* Port.port : PORTx
    pins,     \* the bit indices of the Pin handles that exist
    last,     \* the operation that ran last, with the registers before it
    prev,     \* the operation that ran before `last`, if it was a high()
    mode,     \* RandomNumberGenerator.mode
    rpc,      \* position inside the running accessor of the generator
    called,   \* the accessor called last
    loc,      \* the locals of generate_by_analog / xor_rotate
    io,       \* analog reads, sensor accesses and delay of the running call
    smp,      \* the six bytes generate_mpu returned last
    ret,      \* the byte the last completed call returned
    xa, xb, xout,   \* xor's arguments and result
    rot_n, rot_b, rot_img    \* rotate's n, its next input and the outputs so far

portVars == <<ddr, port, pins, last, prev>>
rngVars == <<mode, rpc, called, loc, io, smp, ret>>
xorVars == <<xa, xb, xout>>
rotVars == <<rot_n, rot_b, rot_img>>
vars == <<ddr, port, pins, last, prev, mode, rpc, called, loc, io, smp,
          ret, xa, xb, xout, rot_n, rot_b, rot_img>>
notPort == <<rngVars, xorVars, rotVars>>
notRng == <<portVars, xorVars, rotVars>>
notXor == <<portVars, rngVars, rotVars>>
notRot == <<portVars, rngVars, xorVars>>

\* the value of a byte-valued variable that holds no byte yet
NoByte == 0 - 1

\* ===================================================================== Port
NoOp == [op |-> "none", idx |-> 0, present |-> FALSE, out |-> FALSE,
         ddr0 |-> 0, port0 |-> 0, wrote |-> {}]

\* What the log keeps of the operation before the last one: a high() with the
\* pin it ran on and PORTx before it, or that it was something else.
NoHigh == [op |-> "other", idx |-> 0, port0 |-> 0]
Earlier(l) ==
    IF l.op = "high" THEN [op |-> "high", idx |-> l.idx, port0 |-> l.port0]
    ELSE NoHigh

\* What the log keeps of one operation: its name, the pin index, the
\* registers before it ran and the registers it wrote.
Done(o, k, w) == [op |-> o, idx |-> k, present |-> FALSE, out |-> FALSE,
                  ddr0 |-> ddr, port0 |-> port, wrote |-> w]

\* Port::pin's test of the index
pin_valid_mut(i) == i <= 8
pin_valid(i) == i < 8

\* Port::pin(i): Some(Pin) iff the index is valid
Port_pin(i) ==
    /\ (pin_valid(i) /\ i \notin pins) => Cardinality(pins) < MaxPins
    /\ pins' = IF pin_valid(i) THEN pins \cup {i} ELSE pins
    /\ prev' = Earlier(last)
    /\ last' = [Done("pin", i, {}) EXCEPT !.present = pin_valid(i)]
    /\ UNCHANGED <<ddr, port>>
    /\ UNCHANGED notPort

\* Pin::new(port, i) is Port::new(port).pin(i)
Pin_new(i) ==
    /\ (pin_valid(i) /\ i \notin pins) => Cardinality(pins) < MaxPins
    /\ pins' = IF pin_valid(i) THEN pins \cup {i} ELSE pins
    /\ prev' = Earlier(last)
    /\ last' = [Done("new", i, {}) EXCEPT !.present = pin_valid(i)]
    /\ UNCHANGED <<ddr, port>>
    /\ UNCHANGED notPort

\* the value set_pin_mode writes to DDRx
ddr_val_mut(d, k, out) ==
    Or8(d, IF out THEN Shl8(1, k) ELSE 0)
ddr_val(d, k, out) ==
    Or8(And8(d, Not8(Shl8(1, k))), IF out THEN Shl8(1, k) ELSE 0)

\* Pin::set_pin_mode(mode): out is TRUE for IOMode::Output
set_pin_mode(k, out, name) ==
    /\ k \in pins
    /\ ddr' = ddr_val(ddr, k, out)
    /\ prev' = Earlier(last)
    /\ last' = [Done(name, k, {"ddr"}) EXCEPT !.out = out]
    /\ UNCHANGED <<port, pins>>
    /\ UNCHANGED notPort

\* Pin::output / Pin::input
output(k) == set_pin_mode(k, TRUE, "output")
input(k) == set_pin_mode(k, FALSE, "input")

\* Port.pin, the PINx register, holds no value of its own: a one written to
\* PINxn toggles PORTxn.  pin_write is PORTx after v is written to PINx.
pin_write(p, v) == Sub8(Or8(p, v), And8(p, v))

\* Pin::toggle
toggle(k) ==
    /\ k \in pins
    /\ port' = pin_write(port, Shl8(1, k))
    /\ prev' = Earlier(last)
    /\ last' = Done("toggle", k, {"pin"})
    /\ UNCHANGED <<ddr, pins>>
    /\ UNCHANGED notPort

\* the condition under which high() toggles
high_toggles_mut(p, ddr_value, k) == k < 8 /\ ddr_value = Shl8(1, k)
high_toggles(p, ddr_value, k) == k < 8 /\ p = 0 /\ ddr_value = Shl8(1, k)

\* Pin::high
high(k) ==
    /\ k \in pins
    /\ IF high_toggles(port, ddr, k)
       THEN /\ port' = pin_write(port, Shl8(1, k))
            /\ last' = Done("high", k, {"pin"})
       ELSE /\ UNCHANGED port
            /\ last' = Done("high", k, {})
    /\ prev' = Earlier(last)
    /\ UNCHANGED <<ddr, pins>>
    /\ UNCHANGED notPort

\* the condition under which low() toggles
low_toggles_mut(p, ddr_value, k) == k < 8 /\ p = 0 /\ ddr_value = Shl8(1, k)
low_toggles(p, ddr_value, k) == k < 8 /\ p # 0 /\ ddr_value = Shl8(1, k)

\* Pin::low
low(k) ==
    /\ k \in pins
    /\ IF low_toggles(port, ddr, k)
       THEN /\ port' = pin_write(port, Shl8(1, k))
            /\ last' = Done("low", k, {"pin"})
       ELSE /\ UNCHANGED port
            /\ last' = Done("low", k, {})
    /\ prev' = Earlier(last)
    /\ UNCHANGED <<ddr, pins>>
    /\ UNCHANGED notPort

NextPort ==
    \/ \E i \in 0..MaxIndex : Port_pin(i)
    \/ \E i \in 0..MaxIndex : Pin_new(i)
    \/ \E k \in 0..7 : output(k)
    \/ \E k \in 0..7 : input(k)
    \/ \E k \in 0..7 : toggle(k)
    \/ \E k \in 0..7 : high(k)
    \/ \E k \in 0..7 : low(k)

\* ================================================================= BitMixer
\* rotate(b, n) = (b >> n) | (b << (8 - n))
rotate_mut(b, n) == Or8(Shr8(b, n), Shl8(b, n))
rotate(b, n) == Or8(Shr8(b, n), Shl8(b, 8 - n))

\* xor(a, b) = (a | b) - (a & b)
xor_mut(a, b) == Sub8(Or8(a, b), b)
xor(a, b) == Sub8(Or8(a, b), And8(a, b))

\* xor_shift(a): ans = 0 xor a xor (a >> 3) xor (a << 5) xor (a >> 4)
xor_shift_mut(a) ==
    xor(xor(xor(xor(0, a), Shr8(a, 3)), Shl8(a, 4)), Shr8(a, 4))
xor_shift(a) ==
    xor(xor(xor(xor(0, a), Shr8(a, 3)), Shl8(a, 5)), Shr8(a, 4))

\* push_left(val, change) = xor(val << 1, xor(change, val))
push_left(val, change) == xor(Shl8(val, 1), xor(change, val))

\* push_right(val, change) = xor(val >> 1, xor(change << 7, val))
push_right(val, change) == xor(Shr8(val, 1), xor(Shl8(change, 7), val))

\* ==================================================== RandomNumberGenerator
Generator == {"Analog", "Mpu"}

\* What an analog read gives once cast to u8; the two rails of the converter.
AnalogLevels == {0, ByteMax}

\* The bytes generate_mpu returns: the low and the high end of u8.
AxisBytes == (0..MaxAxis) \cup ((ByteMax - MaxAxis)..ByteMax)

LocInit == [bits1 |-> 0, lbuf |-> 0, rbuf |-> 0, buf |-> 0, bits3 |-> 0,
            i |-> 0, call |-> 0, xi |-> 0, xacc |-> 0, left |-> 0]

IoZero == [reads |-> 0, sensor |-> 0, delay |-> 0]

\* generate_by_analog's match on self.mode: TRUE when the call goes on
analog_allowed_mut(m) == TRUE
analog_allowed(m) == m = "Analog"

\* generate_by_mpu's match on self.mode: TRUE when the call goes on
mpu_allowed(m) == m = "Mpu"

\* generate_by_analog, up to its first call of xor_rotate
generate_by_analog ==
    /\ rpc = "idle"
    /\ called' = "analog"
    /\ ret' = NoByte
    /\ io' = IoZero
    /\ IF analog_allowed(mode)
       THEN /\ rpc' = "xor_rotate"
            /\ loc' = [LocInit EXCEPT !.call = 1, !.xi = 1]
       ELSE /\ rpc' = "aborted"
            /\ loc' = LocInit
    /\ UNCHANGED <<mode, smp>>
    /\ UNCHANGED notRng

\* generate_by_analog's locals once the running xor_rotate returned r
after_xor_rotate(l, r) ==
    IF l.call = 1 THEN [l EXCEPT !.bits1 = xor_shift(r), !.call = 2]
    ELSE IF l.call = 2 THEN [l EXCEPT !.bits1 = xor(l.bits1, r), !.call = 3]
    ELSE IF l.call = 3 THEN [l EXCEPT !.lbuf = r, !.call = 4]
    ELSE [l EXCEPT !.rbuf = r, !.buf = xor(l.lbuf, r), !.bits3 = 0,
                   !.i = 1, !.call = 0]

\* one iteration of xor_rotate's loop; the seventh returns to the caller
xor_rotate ==
    /\ rpc = "xor_rotate"
    /\ \E a \in AnalogLevels :
         LET acc == xor(loc.xacc, rotate(a, loc.xi))
         IN  IF loc.xi < 7
             THEN /\ loc' = [loc EXCEPT !.xacc = acc, !.xi = loc.xi + 1]
                  /\ rpc' = "xor_rotate"
             ELSE /\ loc' = [after_xor_rotate(loc, acc) EXCEPT
                                !.xacc = 0, !.xi = 1]
                  /\ rpc' = IF loc.call = 4 THEN "left" ELSE "xor_rotate"
    /\ io' = [io EXCEPT !.reads = io.reads + 1, !.delay = io.delay + 20]
    /\ UNCHANGED <<mode, called, smp, ret>>
    /\ UNCHANGED notRng

\* generate_by_analog's round i, first half: delay_ms(100), read left
read_left ==
    /\ rpc = "left"
    /\ \E a \in AnalogLevels : loc' = [loc EXCEPT !.left = a]
    /\ io' = [io EXCEPT !.reads = io.reads + 1, !.delay = io.delay + 100]
    /\ rpc' = "right"
    /\ UNCHANGED <<mode, called, smp, ret>>
    /\ UNCHANGED notRng

\* the loop over j in 1..8 of generate_by_analog: <<lbuf, rbuf>> after it
RECURSIVE push_bits(_, _, _, _, _, _)
push_bits(lbuf, rbuf, buf, left, right, j) ==
    IF j >= 8 THEN <<lbuf, rbuf>>
    ELSE LET lb == get_bit(left, j)
             rb == get_bit(right, j)
         IN  IF lb # rb
             THEN IF buf % 2 = 0
                  THEN push_bits(push_left(lbuf, lb), rbuf, buf, left, right,
                                 j + 1)
                  ELSE push_bits(lbuf, push_right(rbuf, lb), buf, left, right,
                                 j + 1)
             ELSE push_bits(lbuf, rbuf, buf, left, right, j + 1)

\* generate_by_analog's round i, second half: delay_ms(100), read right,
\* fold both samples into bits3, lbuf and rbuf
read_right ==
    /\ rpc = "right"
    /\ \E right \in AnalogLevels :
         LET b3 == xor(xor(loc.bits3, rotate(loc.left, loc.i)),
                       rotate(right, 7 - loc.i))
             lr == push_bits(loc.lbuf, loc.rbuf, loc.buf, loc.left, right, 1)
         IN  loc' = [loc EXCEPT !.bits3 = b3, !.lbuf = lr[1], !.rbuf = lr[2],
                                !.i = loc.i + 1]
    /\ io' = [io EXCEPT !.reads = io.reads + 1, !.delay = io.delay + 100]
    /\ rpc' = IF loc.i < 3 THEN "left" ELSE "mix"
    /\ UNCHANGED <<mode, called, smp, ret>>
    /\ UNCHANGED notRng

\* generate_by_analog's last three statements and its return
analog_return ==
    /\ rpc = "mix"
    /\ ret' = xor(xor(xor_shift(loc.bits1), loc.bits3), xor(loc.lbuf, loc.rbuf))
    /\ rpc' = "idle"
    /\ loc' = LocInit
    /\ UNCHANGED <<mode, called, smp, io>>
    /\ UNCHANGED notRng

\* generate_by_mpu's mixing of the six bytes
mpu_mix(a, b, c, d, e, f) ==
    LET a1 == Shl8(And8(a, 3), 6)
        a2 == Shl8(And8(d, 3), 6)
        bits1 == xor(a1, xor(Shl8(c, 4), xor(Shl8(b, 2), xor(a, Shr8(c, 2)))))
        bits2 == xor(a2, xor(Shl8(f, 4), xor(Shl8(e, 2), xor(d, Shr8(f, 2)))))
    IN  xor(xor_shift(bits1), bits2)

\* generate_by_mpu, up to its call of generate_mpu
generate_by_mpu ==
    /\ rpc = "idle"
    /\ called' = "mpu"
    /\ ret' = NoByte
    /\ io' = IoZero
    /\ smp' = <<>>
    /\ rpc' = IF mpu_allowed(mode) THEN "generate_mpu" ELSE "aborted"
    /\ UNCHANGED <<mode, loc>>
    /\ UNCHANGED notRng

\* generate_mpu: starts the sensor, reads the gyroscope, waits a second,
\* reads the accelerometer, waits a second, returns the six bytes
generate_mpu ==
    /\ rpc = "generate_mpu"
    /\ \E a, b, c, d, e, f \in AxisBytes : smp' = <<a, b, c, d, e, f>>
    /\ io' = [io EXCEPT !.sensor = io.sensor + 3, !.delay = io.delay + 2000]
    /\ rpc' = "mpu_mix"
    /\ UNCHANGED <<mode, called, loc, ret>>
    /\ UNCHANGED notRng

\* generate_by_mpu's mixing and its return
mpu_return ==
    /\ rpc = "mpu_mix"
    /\ ret' = mpu_mix(smp[1], smp[2], smp[3], smp[4], smp[5], smp[6])
    /\ rpc' = "idle"
    /\ UNCHANGED <<mode, called, loc, io, smp>>
    /\ UNCHANGED notRng

NextRng ==
    \/ generate_by_analog
    \/ xor_rotate
    \/ read_left
    \/ read_right
    \/ analog_return
    \/ generate_by_mpu
    \/ generate_mpu
    \/ mpu_return

\* ============================================== xor and rotate on all bytes
\* one application of xor
apply_xor ==
    /\ xout = NoByte
    /\ xout' = xor(xa, xb)
    /\ UNCHANGED <<xa, xb>>
    /\ UNCHANGED notXor

\* rotate(rot_b, rot_n) for the next input rot_b
apply_rotate ==
    /\ rot_b <= ByteMax
    /\ rot_img' = rot_img \cup {rotate(rot_b, rot_n)}
    /\ rot_b' = rot_b + 1
    /\ UNCHANGED rot_n
    /\ UNCHANGED notRot

\* ----------------------------------------------------------- specifications
\* The port after reset (DDRx and PORTx cleared), no Pin taken yet.
InitPort ==
    /\ ddr = 0
    /\ port = 0
    /\ pins = {}
    /\ last = NoOp
    /\ prev = NoHigh
    /\ mode = "Analog"
    /\ rpc = "idle"
    /\ called = "none"
    /\ loc = LocInit
    /\ io = IoZero
    /\ smp = <<>>
    /\ ret = NoByte
    /\ xa = 0
    /\ xb = 0
    /\ xout = NoByte
    /\ rot_n = 1
    /\ rot_b = 0
    /\ rot_img = {}

\* A generator built by RandomNumberGenerator::new(mode1), no call made yet.
InitRng ==
    /\ mode \in Generator
    /\ rpc = "idle"
    /\ called = "none"
    /\ loc = LocInit
    /\ io = IoZero
    /\ smp = <<>>
    /\ ret = NoByte
    /\ ddr = 0
    /\ port = 0
    /\ pins = {}
    /\ last = NoOp
    /\ prev = NoHigh
    /\ xa = 0
    /\ xb = 0
    /\ xout = NoByte
    /\ rot_n = 1
    /\ rot_b = 0
    /\ rot_img = {}

\* Every pair of bytes as xor's arguments.
InitXor ==
    /\ xa \in Byte
    /\ xb \in Byte
    /\ xout = NoByte
    /\ ddr = 0
    /\ port = 0
    /\ pins = {}
    /\ last = NoOp
    /\ prev = NoHigh
    /\ mode = "Analog"
    /\ rpc = "idle"
    /\ called = "none"
    /\ loc = LocInit
    /\ io = IoZero
    /\ smp = <<>>
    /\ ret = NoByte
    /\ rot_n = 1
    /\ rot_b = 0
    /\ rot_img = {}

\* Every n in 1..7, rotate not applied yet.
InitRot ==
    /\ rot_n \in 1..7
    /\ rot_b = 0
    /\ rot_img = {}
    /\ ddr = 0
    /\ port = 0
    /\ pins = {}
    /\ last = NoOp
    /\ prev = NoHigh
    /\ mode = "Analog"
    /\ rpc = "idle"
    /\ called = "none"
    /\ loc = LocInit
    /\ io = IoZero
    /\ smp = <<>>
    /\ ret = NoByte
    /\ xa = 0
    /\ xb = 0
    /\ xout = NoByte

SpecPort == InitPort /\ [][NextPort]_vars
SpecRng == InitRng /\ [][NextRng]_vars
SpecXor == InitXor /\ [][apply_xor]_vars
SpecRotate == InitRot /\ [][apply_rotate]_vars

\* ================================================================== claims
\* the bit of pin k alone
Mask(k) == 2 ^ k

\* standard bitwise exclusive-or of two bytes, bit by bit
RECURSIVE XorBits(_, _, _)
XorBits(a, b, i) ==
    IF i > 7 THEN 0
    ELSE ((get_bit(a, i) + get_bit(b, i)) % 2) * (2 ^ i) + XorBits(a, b, i + 1)
BitXor(a, b) == XorBits(a, b, 0)

\* low() has just run right after high() on the same pin, an output
HighThenLow ==
    /\ last.op = "low"
    /\ prev.op = "high"
    /\ prev.idx = last.idx
    /\ get_bit(ddr, last.idx) = 1

\* C1 as stated: low() following high() on the same output pin leaves PORTx
\* equal to its value before high().
C1_LowAfterHighRestores == HighThenLow => port = prev.port0

\* C1 as amended: low() following high() on the same output pin leaves PORTx
\* equal to its value before high() exactly when that value was zero or the
\* pin is not the port's only output (DDRx differs from the pin's bit alone,
\* so that neither call toggles); when the pin is the only output and PORTx
\* was not zero, high() does nothing and low() flips the pin's bit of PORTx.
C1_LowAfterHighAmended ==
    HighThenLow =>
        /\ (prev.port0 = 0 \/ ddr # Mask(last.idx)) => port = prev.port0
        /\ (prev.port0 # 0 /\ ddr = Mask(last.idx)) =>
               /\ port # prev.port0
               /\ port = BitXor(prev.port0, Mask(last.idx))

\* C1's case: PORTx was zero, high() toggled the pin up, low() toggled it
\* back down.
C1_Witness ==
    /\ HighThenLow
    /\ prev.port0 = 0
    /\ last.port0 = Mask(last.idx)
    /\ last.wrote = {"pin"}
    /\ port = 0

\* high() has just run right after high() on the same pin, an output
HighTwice ==
    /\ last.op = "high"
    /\ prev.op = "high"
    /\ prev.idx = last.idx
    /\ get_bit(ddr, last.idx) = 1

\* C2: high() is idempotent: a second high() in succession on the same output
\* pin leaves PORTx as the first call left it and writes nothing to PINx.
C2_HighIdempotent ==
    HighTwice => (port = last.port0 /\ last.wrote = {})

\* C2's case: the first high() toggled the pin up, the second ran after it.
C2_Witness ==
    /\ HighTwice
    /\ prev.port0 = 0
    /\ last.port0 = Mask(last.idx)
    /\ port = Mask(last.idx)

\* the accessor called does not match the generator's mode
Mismatch ==
    \/ called = "analog" /\ mode = "Mpu"
    \/ called = "mpu" /\ mode = "Analog"

\* C3: the accessor that does not match the generator's mode aborts: it
\* returns no byte, and no analog read, sensor access or delay precedes the
\* abort; the mode never changes after construction.
C3_MismatchIsFatal ==
    /\ [](Mismatch => (rpc = "aborted" /\ ret = NoByte /\ io = IoZero))
    /\ [][mode' = mode]_vars

\* C3's case: generate_by_analog was called on a generator built with Mpu.
C3_Witness ==
    /\ called = "analog"
    /\ mode = "Mpu"
    /\ rpc = "aborted"

\* xor_shift with standard exclusive-or and shifts cut to 8 bits
XorShiftRef(a) ==
    BitXor(BitXor(BitXor(a, a \div 8), (a * 32) % 256), a \div 16)

\* the mixing of generate_by_mpu with standard exclusive-or
MixRef(s) ==
    LET a == s[1]
        b == s[2]
        c == s[3]
        d == s[4]
        e == s[5]
        f == s[6]
        bits1 == BitXor(((a % 4) * 64) % 256,
                   BitXor((c * 16) % 256,
                     BitXor((b * 4) % 256, BitXor(a, c \div 4))))
        bits2 == BitXor(((d % 4) * 64) % 256,
                   BitXor((f * 16) % 256,
                     BitXor((e * 4) % 256, BitXor(d, f \div 4))))
    IN  BitXor(XorShiftRef(bits1), bits2)

\* generate_by_mpu has returned
MpuReturned == called = "mpu" /\ rpc = "idle"

\* C4: generate_by_mpu returns the stated mixing of the six sampled bytes;
\* (0,0,0,0,0,0) gives 0 and (1,0,0,0,0,0) gives 109.
C4_MpuMixing ==
    MpuReturned =>
        /\ ret = MixRef(smp)
        /\ smp = <<0, 0, 0, 0, 0, 0>> => ret = 0
        /\ smp = <<1, 0, 0, 0, 0, 0>> => ret = 109

\* C4's case: generate_by_mpu returned for the bytes (1,0,0,0,0,0).
C4_Witness ==
    /\ MpuReturned
    /\ smp = <<1, 0, 0, 0, 0, 0>>
    /\ ret = 109

\* C5: xor(a, b) is the standard bitwise exclusive-or for every pair of
\* bytes, its subtraction never goes below zero, xor(a, b) = xor(b, a) and
\* xor(a, a) = 0.
C5_XorIsExclusiveOr ==
    xout # NoByte =>
        /\ xout = BitXor(xa, xb)
        /\ Or8(xa, xb) - And8(xa, xb) >= 0
        /\ xout = xor(xb, xa)
        /\ xa = xb => xout = 0

\* C5's case: xor was applied to two bytes that share bits and differ.
C5_Witness ==
    /\ xa = 255
    /\ xb = 170
    /\ xout = 85

\* C6: for each n in 1..7 the outputs of rotate(b, n) over the bytes b are
\* bytes and pairwise distinct: as many outputs as inputs so far.
C6_RotateBijective ==
    /\ rot_img \subseteq Byte
    /\ Cardinality(rot_img) = rot_b

\* C6's case: all 256 bytes went through rotate(b, 7) and gave every byte.
C6_Witness ==
    /\ rot_n = 7
    /\ rot_b = 256
    /\ rot_img = Byte

\* C7: Port::pin(i) and Pin::new(port, i) return a Pin iff 0 <= i < 8, and
\* every Pin that exists has a bit index in 0..7.
C7_PinIffInRange ==
    /\ last.op \in {"pin", "new"} => (last.present <=> last.idx \in 0..7)
    /\ pins \subseteq 0..7

\* C7's case: index 8 was asked for and no Pin came back.
C7_Witness ==
    /\ last.op = "pin"
    /\ last.idx = 8
    /\ ~last.present

\* C8: after high() on an output pin the pin's bit of PORTx is 1.
C8_HighSetsBit ==
    (last.op = "high" /\ get_bit(last.ddr0, last.idx) = 1) =>
        get_bit(port, last.idx) = 1

\* C9: after low() on an output pin the pin's bit of PORTx is 0.
C9_LowClearsBit ==
    (last.op = "low" /\ get_bit(last.ddr0, last.idx) = 1) =>
        get_bit(port, last.idx) = 0

\* C10: set_pin_mode, output() and input() on pin k leave bit k of DDRx 1 for
\* Output and 0 for Input, keep every other bit of DDRx, and write neither
\* PORTx nor PINx.
C10_SetPinModeFrame ==
    last.op \in {"output", "input"} =>
        /\ last.out <=> last.op = "output"
        /\ get_bit(ddr, last.idx) = (IF last.out THEN 1 ELSE 0)
        /\ \A j \in (0..7) \ {last.idx} : get_bit(ddr, j) = get_bit(last.ddr0, j)
        /\ port = last.port0
        /\ last.wrote = {"ddr"}

\* C10's case: input() cleared the bit of an output pin while another pin of
\* the port stayed an output.
C10_Witness ==
    /\ last.op = "input"
    /\ get_bit(last.ddr0, last.idx) = 1
    /\ ddr # 0
    /\ port # 0

====
